---- MODULE Spec2Model ----
(***************************************************************************)
(* Model of WikiFlick/add_localization_key.py: update_localization_files() *)
(* walks the entries of base_dir and, for every "<code>.lproj" bundle that *)
(* holds a Localizable.strings file, patches or appends the entry of `key`.*)
(*                                                                         *)
(* Text is a sequence of symbols.  A symbol is one character ("\n", " ",   *)
(* "\"", "=", ";", ".", "-") or a run of characters that holds none of the *)
(* characters the code looks at (a word such as "en", "lproj", the key     *)
(* name, a translation).  Every string operation of the code (in,          *)
(* splitlines, strip, startswith, endswith, split, join, +) is modelled on *)
(* these sequences as Python computes it.                                  *)
(***************************************************************************)
EXTENDS Integers, Sequences, FiniteSets, TLC

VARIABLES
    listable,   \* os.listdir(base_dir) succeeds
    items,      \* os.listdir(base_dir): the entry names, in listing order
    files,      \* files[i]: <base_dir>/<items[i]>/Localizable.strings
    orig,       \* files as they were when the current call started
    pc,         \* "start", "loop", "done" (returned), "raised" (exception left the call)
    idx,        \* position of the for loop in items
    count,      \* the local variable count
    out,        \* what the current call printed
    loc,        \* the loop's local variables item, lang_code, simple_lang_code, translation
    runs,       \* completed calls (saturates at MaxRuns)
    added       \* "Added" outcomes over all calls (saturates at MaxAdds)

vars == <<listable, items, files, orig, pc, idx, count, out, loc, runs, added>>

----------------------------------------------------------------------------
(* Bounds of the model *)

MaxEntries == 2
MaxPieces == 4
MaxRuns == 3
MaxAdds == 2

----------------------------------------------------------------------------
(* Symbols *)

NL == "\n"
CR == "\r"
SP == " "
TAB == "\t"
QUOTE == "\""
DOT == "."
HYPHEN == "-"
None == "<None>"

(* line 7 *)
key == "continue_without_pro"

(* lines 10-49; the values that are not ASCII are written as "[<code>] ..." *)
translations ==
    [ en |-> "Continue without WikiShorts Pro",
      tr |-> "WikiShorts Pro olmadan devam et",
      es |-> "Continuar sin WikiShorts Pro",
      fr |-> "Continuer sans WikiShorts Pro",
      de |-> "Weiter ohne WikiShorts Pro",
      it |-> "Continua senza WikiShorts Pro",
      pt |-> "Continuar sem WikiShorts Pro",
      ru |-> "[ru] WikiShorts Pro",
      ja |-> "WikiShorts Pro [ja]",
      ko |-> "WikiShorts Pro [ko]",
      zh |-> "[zh] WikiShorts Pro",
      ar |-> "[ar] WikiShorts Pro",
      hi |-> "WikiShorts Pro [hi]",
      nl |-> "Doorgaan zonder WikiShorts Pro",
      sv |-> "[sv] utan WikiShorts Pro",
      no |-> "Fortsett uten WikiShorts Pro",
      da |-> "[da] uden WikiShorts Pro",
      fi |-> "Jatka ilman WikiShorts Pro:ta",
      pl |-> "Kontynuuj bez WikiShorts Pro",
      el |-> "[el] WikiShorts Pro",
      he |-> "[he] WikiShorts Pro",
      id |-> "Lanjutkan tanpa WikiShorts Pro",
      ms |-> "Teruskan tanpa WikiShorts Pro",
      th |-> "[th] WikiShorts Pro",
      vi |-> "[vi] WikiShorts Pro",
      cs |-> "[cs] bez WikiShorts Pro",
      hu |-> "[hu] WikiShorts Pro",
      ro |-> "[ro] WikiShorts Pro",
      uk |-> "[uk] WikiShorts Pro",
      hr |-> "Nastavi bez WikiShorts Pro",
      sk |-> "[sk] bez WikiShorts Pro",
      bg |-> "[bg] WikiShorts Pro",
      sr |-> "[sr] WikiShorts Pro",
      ca |-> "Continua sense WikiShorts Pro",
      lt |-> "[lt] be WikiShorts Pro",
      sl |-> "Nadaljuj brez WikiShorts Pro",
      et |-> "[et] ilma WikiShorts Prota",
      lv |-> "[lv] bez WikiShorts Pro" ]

(* line 52 *)
fallback_translation == "Continue without WikiShorts Pro"

----------------------------------------------------------------------------
(* Python's string operations, on sequences of symbols *)

Min(S) == CHOOSE x \in S : \A y \in S : x <= y

(* s.startswith(p) *)
StartsWith(s, p) == Len(p) <= Len(s) /\ SubSeq(s, 1, Len(p)) = p

(* s.endswith(p) *)
EndsWith(s, p) == Len(p) <= Len(s) /\ SubSeq(s, Len(s) - Len(p) + 1, Len(s)) = p

(* p in s *)
Contains(s, p) == \E i \in 1..(Len(s) - Len(p) + 1) : SubSeq(s, i, i + Len(p) - 1) = p

(* s.split(sep)[0]: the part of s before the first sep, s itself when there is none *)
SplitFirst(s, sep) ==
    LET at == {i \in 1..Len(s) : s[i] = sep}
    IN  IF at = {} THEN s ELSE SubSeq(s, 1, Min(at) - 1)

(* the line boundaries of str.splitlines() that the model's texts can hold *)
LineBreaks == {NL, CR}

(* the "\n" of a "\r\n" pair: it belongs to the boundary the "\r" starts *)
IsPairTail(s, i) == s[i] = NL /\ i > 1 /\ s[i - 1] = CR

(* the positions of s where a line boundary starts, in order *)
BreakStarts(s) ==
    SelectSeq([i \in 1..Len(s) |-> i],
              LAMBDA i : s[i] \in LineBreaks /\ ~IsPairTail(s, i))

(* the position after the line boundary that starts at i *)
AfterBreak(s, i) == IF i < Len(s) /\ IsPairTail(s, i + 1) THEN i + 2 ELSE i + 1

(* s.splitlines(): "\r\n" is one boundary; no empty last line after a final boundary *)
SplitLines(s) ==
    LET b == BreakStarts(s)
        n == Len(b)
        first(k) == IF k = 1 THEN 1 ELSE AfterBreak(s, b[k - 1])
    IN  [k \in 1..n |-> SubSeq(s, first(k), b[k] - 1)]
        \o (IF first(n + 1) <= Len(s)
            THEN <<SubSeq(s, first(n + 1), Len(s))>>
            ELSE <<>>)

(* sep.join(lines) *)
Join(lines, sep) ==
    LET joined[n \in 0..Len(lines)] ==
            IF n = 0 THEN <<>>
            ELSE IF n = 1 THEN lines[1]
            ELSE joined[n - 1] \o sep \o lines[n]
    IN  joined[Len(lines)]

(* f.read() of a file opened in text mode with the default newline=None:   *)
(* "\r\n" and "\r" come back as "\n"; f.write() on the platform of base_dir *)
(* (a path under /Users) writes "\n" as it is                               *)
ReadText(s) ==
    LET kept == SelectSeq([i \in 1..Len(s) |-> i], LAMBDA i : ~IsPairTail(s, i))
    IN  [k \in 1..Len(kept) |-> IF s[kept[k]] = CR THEN NL ELSE s[kept[k]]]

Whitespace == {SP, TAB, NL, CR}

(* s.strip() *)
Strip(s) ==
    LET ink == {i \in 1..Len(s) : s[i] \notin Whitespace}
    IN  IF ink = {} THEN <<>>
        ELSE SubSeq(s, Min(ink), CHOOSE j \in ink : \A k \in ink : k <= j)

----------------------------------------------------------------------------
(* The code's own definitions *)

(* the directory suffix of line 60 *)
Suffix == <<DOT, "lproj">>

(* f'"{key}"' of lines 78 and 83 *)
QuotedKey == <<QUOTE, key, QUOTE>>

(* f'"{key}" = "{translation}";' of lines 84 and 99 *)
Canonical(translation) ==
    <<QUOTE, key, QUOTE, SP, "=", SP, QUOTE, translation, QUOTE, ";">>

(* line 60: item.endswith(".lproj") *)
IsBundle(item) == EndsWith(item, Suffix)

(* line 61: item.split(".")[0] *)
LangCode(item) == SplitFirst(item, DOT)

(* line 66: lang_code.split("-")[0] *)
SimpleLangCode(lang_code) == SplitFirst(lang_code, HYPHEN)

(* translations.get(code): a table key is one word, so a code of several  *)
(* symbols (or of none) is no key                                          *)
TableGet(code) ==
    IF Len(code) = 1 /\ code[1] \in DOMAIN translations
    THEN translations[code[1]]
    ELSE None

(* Python's a or b on these values: None and "" are falsy *)
Or(a, b) == IF a # None /\ a # "" THEN a ELSE b

(* line 68 *)
Translation(lang_code, simple_lang_code) ==
    Or(Or(TableGet(lang_code), TableGet(simple_lang_code)), fallback_translation)

(* lines 61-68: the loop's locals for one entry *)
Locals(item) ==
    LET lang == LangCode(item)
        simple == SimpleLangCode(lang)
    IN  [item |-> item, lang_code |-> lang, simple_lang_code |-> simple,
         translation |-> Translation(lang, simple)]

(* line 78: the test that picks the replace branch *)
KeyExists(content) == Contains(content, QuotedKey)

(* line 83: the test that picks the lines to replace *)
LineMatches(line) == StartsWith(Strip(line), QuotedKey)

(* lines 81-86 *)
ReplaceLines(lines, translation) ==
    [i \in 1..Len(lines) |->
        IF LineMatches(lines[i]) THEN Canonical(translation) ELSE lines[i]]

(* line 87 *)
NewContent(content, translation) ==
    Join(ReplaceLines(SplitLines(content), translation), <<NL>>)

(* the comparison of line 88 left out: every file with the key is written *)
ChangedAlways(new_content, content) == TRUE

(* line 88: new_content != content *)
Changed(new_content, content) == new_content # content

(* lines 97-99 *)
Appended(content, translation) ==
    (IF EndsWith(content, <<NL>>) THEN content ELSE content \o <<NL>>)
        \o <<NL>> \o Canonical(translation) \o <<NL>>

(* lines 78-103: what one file's processing does when no I/O fails: the    *)
(* line printed, whether the file is opened for writing, the text written  *)
Patch(content, translation) ==
    IF KeyExists(content)
    THEN LET new_content == NewContent(content, translation)
         IN  IF Changed(new_content, content)
             THEN [kind |-> "Updated", write |-> TRUE, text |-> new_content]
             ELSE [kind |-> "Skipped", write |-> FALSE, text |-> content]
    ELSE [kind |-> "Added", write |-> TRUE, text |-> Appended(content, translation)]

(* a failed open(file_path, "w") leaves the file as it was; a write that   *)
(* fails after the open truncated the file leaves some prefix of the text  *)
WriteFailureLeaves(old, text) ==
    {old} \cup {SubSeq(text, 1, k) : k \in 0..Len(text)}

(* line 105 *)
CountAfterSuccess(c) == c + 1

(* count += 1 moved out of the try, to the end of the loop body *)
CountAfterNoSuccessCounted(c) == c + 1

(* lines 72, 106-107: a missing file or a caught failure leaves count alone *)
CountAfterNoSuccess(c) == c

(* the try around the whole loop: a failure ends the loop *)
NextAfterFailureEndsLoop(i, n) == n + 1

(* lines 59, 106-107: the except clause is inside the loop, the next entry follows *)
NextAfterFailure(i, n) == i + 1

(* one printed line; item is the position of the entry it is about (0: none) *)
Msg(kind, item, lang, arg) == [kind |-> kind, item |-> item, lang |-> lang, arg |-> arg]

NoLocals == [item |-> <<>>, lang_code |-> <<>>, simple_lang_code |-> <<>>,
             translation |-> None]

NoFile == [exists |-> FALSE, content |-> <<>>]

Sat(n, max) == IF n < max THEN n + 1 ELSE max

----------------------------------------------------------------------------
(* update_localization_files(), one step per loop iteration *)

(* lines 55-59: the first print and os.listdir(base_dir) *)
Start ==
    /\ pc = "start"
    /\ listable
    /\ pc' = "loop"
    /\ idx' = 1
    /\ count' = 0
    /\ out' = <<Msg("Starting", 0, <<>>, None)>>
    /\ orig' = files
    /\ loc' = NoLocals
    /\ UNCHANGED <<listable, items, files, runs, added>>

(* line 59: os.listdir raises outside any try, the exception leaves the call *)
ListFail ==
    /\ pc = "start"
    /\ ~listable
    /\ pc' = "raised"
    /\ out' = <<Msg("Starting", 0, <<>>, None)>>
    /\ orig' = files
    /\ loc' = NoLocals
    /\ count' = 0
    /\ UNCHANGED <<listable, items, files, idx, runs, added>>

InLoop == pc = "loop" /\ idx <= Len(items)

(* line 60: an entry that is no bundle *)
SkipEntry ==
    /\ InLoop
    /\ ~IsBundle(items[idx])
    /\ idx' = idx + 1
    /\ loc' = [loc EXCEPT !.item = items[idx]]
    /\ UNCHANGED <<listable, items, files, orig, pc, count, out, runs, added>>

(* lines 61-72: a bundle without the resource file *)
SkipMissing ==
    /\ InLoop
    /\ IsBundle(items[idx])
    /\ ~files[idx].exists
    /\ loc' = Locals(items[idx])
    /\ idx' = idx + 1
    /\ count' = CountAfterNoSuccess(count)
    /\ UNCHANGED <<listable, items, files, orig, pc, out, runs, added>>

(* lines 74-103 for entry i when no I/O fails: the file as read, patched *)
PatchOf(i) == Patch(ReadText(files[i].content), Locals(items[i]).translation)

(* lines 91, 93, 103: the line printed for entry i *)
Report(i) ==
    Msg(PatchOf(i).kind, i, Locals(items[i]).lang_code,
        IF PatchOf(i).kind = "Skipped" THEN "Already correct"
        ELSE Locals(items[i]).translation)

(* lines 61-105: a bundle whose file is read and, if need be, written *)
Process ==
    /\ InLoop
    /\ IsBundle(items[idx])
    /\ files[idx].exists
    /\ loc' = Locals(items[idx])
    /\ files' = IF PatchOf(idx).write
                THEN [files EXCEPT ![idx].content = PatchOf(idx).text]
                ELSE files
    /\ out' = Append(out, Report(idx))
    /\ added' = IF PatchOf(idx).kind = "Added" THEN Sat(added, MaxAdds) ELSE added
    /\ count' = CountAfterSuccess(count)
    /\ idx' = idx + 1
    /\ UNCHANGED <<listable, items, orig, pc, runs>>

(* lines 74-75, 106-107: open or read raises *)
ReadFail ==
    /\ InLoop
    /\ IsBundle(items[idx])
    /\ files[idx].exists
    /\ loc' = Locals(items[idx])
    /\ out' = Append(out, Msg("Error", idx, Locals(items[idx]).lang_code, "read"))
    /\ count' = CountAfterNoSuccess(count)
    /\ idx' = NextAfterFailure(idx, Len(items))
    /\ UNCHANGED <<listable, items, files, orig, pc, runs, added>>

(* lines 89-90, 101-102, 106-107: open for writing or the write raises *)
WriteFail ==
    /\ InLoop
    /\ IsBundle(items[idx])
    /\ files[idx].exists
    /\ PatchOf(idx).write
    /\ loc' = Locals(items[idx])
    /\ \E left \in WriteFailureLeaves(files[idx].content, PatchOf(idx).text) :
           files' = [files EXCEPT ![idx].content = left]
    /\ out' = Append(out, Msg("Error", idx, Locals(items[idx]).lang_code, "write"))
    /\ count' = CountAfterNoSuccess(count)
    /\ idx' = NextAfterFailure(idx, Len(items))
    /\ UNCHANGED <<listable, items, orig, pc, runs, added>>

(* line 109: the loop is over, the summary is printed, the call returns *)
Finish ==
    /\ pc = "loop"
    /\ idx > Len(items)
    /\ out' = Append(out, Msg("Finished", 0, <<>>, count))
    /\ pc' = "done"
    /\ runs' = Sat(runs, MaxRuns)
    /\ UNCHANGED <<listable, items, files, orig, idx, count, loc, added>>

(* lines 111-112: the script is run again *)
Rerun ==
    /\ pc = "done"
    /\ pc' = "start"
    /\ UNCHANGED <<listable, items, files, orig, idx, count, out, loc, runs, added>>

----------------------------------------------------------------------------
(* The base directories: a few entries, each bundle with or without its file *)

(* "en.lproj", "pt-BR.lproj", "xx.lproj", "Info.plist" *)
Names ==
    { <<"en", DOT, "lproj">>,
      <<"pt", HYPHEN, "BR", DOT, "lproj">>,
      <<"xx", DOT, "lproj">>,
      <<"Info", DOT, "plist">> }

(* an unrelated line; an entry of the key, indented and with an old value; *)
(* the entry as the run writes it for "en" and for the fallback            *)
Contents ==
    { <<"x", NL>>,
      <<SP, QUOTE, key, QUOTE, SP, "=", SP, QUOTE, "old", QUOTE, ";", NL>>,
      Canonical(fallback_translation) }

Listings == {s \in UNION {[1..n -> Names] : n \in 0..MaxEntries} :
                \A i, j \in 1..Len(s) : i # j => s[i] # s[j]}

FileStates(item) ==
    IF IsBundle(item)
    THEN {NoFile} \cup {[exists |-> TRUE, content |-> c] : c \in Contents}
    ELSE {NoFile}

Init ==
    /\ listable \in BOOLEAN
    /\ items \in Listings
    /\ ~listable => items = <<>>
    /\ files \in {f \in [1..Len(items) -> UNION {FileStates(n) : n \in Names}] :
                    \A i \in 1..Len(items) : f[i] \in FileStates(items[i])}
    /\ orig = files
    /\ pc = "start"
    /\ idx = 1
    /\ count = 0
    /\ out = <<>>
    /\ loc = NoLocals
    /\ runs = 0
    /\ added = 0

Next ==
    \/ Start
    \/ ListFail
    \/ SkipEntry
    \/ SkipMissing
    \/ Process
    \/ ReadFail
    \/ WriteFail
    \/ Finish

Spec == Init /\ [][Next]_vars

----------------------------------------------------------------------------
(* Repeated calls on one bundle, over many file contents, with no I/O failure *)

(* "pt-BR.lproj" *)
RunBundle == <<"pt", HYPHEN, "BR", DOT, "lproj">>

Pieces ==
    { <<NL>>, <<CR>>, <<SP>>, <<"x">>, QuotedKey,
      Canonical(Locals(RunBundle).translation) }

RECURSIVE Texts(_)
Texts(n) ==
    IF n = 0 THEN {<<>>}
    ELSE LET shorter == Texts(n - 1)
         IN  shorter \cup {t \o p : t \in shorter, p \in Pieces}

InitRuns ==
    /\ listable = TRUE
    /\ items = <<RunBundle>>
    /\ files \in {<<[exists |-> TRUE, content |-> c]>> : c \in Texts(MaxPieces)}
    /\ orig = files
    /\ pc = "start"
    /\ idx = 1
    /\ count = 0
    /\ out = <<>>
    /\ loc = NoLocals
    /\ runs = 0
    /\ added = 0

NextRuns ==
    \/ Start
    \/ Process
    \/ Finish
    \/ Rerun

(* the for loop of line 59 moves on to its next entry *)
LoopAdvances == InLoop /\ idx' = idx + 1

(* The script is sequential and nothing suspends it: a call that has       *)
(* started lists the directory, goes through the loop and returns, and the *)
(* caller of the repeated runs calls again.  In this specification the     *)
(* only step that advances the loop is Process.                            *)
FairRuns ==
    /\ WF_vars(Start)
    /\ WF_idx(LoopAdvances)
    /\ WF_vars(Finish)
    /\ WF_vars(Rerun)

SpecRuns == InitRuns /\ [][NextRuns]_vars /\ FairRuns

----------------------------------------------------------------------------
(* One call on a base directory of one entry, over many entry names *)

MaxNameLen == 4

NameSymbols == {"tr", "xx", HYPHEN, DOT, "lproj"}

(* "." and ".." are never listed *)
EntryNames ==
    UNION {[1..n -> NameSymbols] : n \in 1..MaxNameLen} \ {<<DOT>>, <<DOT, DOT>>}

InitNames ==
    /\ listable = TRUE
    /\ items \in {<<n>> : n \in EntryNames}
    /\ files \in {<<NoFile>>, <<[exists |-> TRUE, content |-> <<>>]>>}
    /\ orig = files
    /\ pc = "start"
    /\ idx = 1
    /\ count = 0
    /\ out = <<>>
    /\ loc = NoLocals
    /\ runs = 0
    /\ added = 0

NextNames ==
    \/ Start
    \/ SkipEntry
    \/ SkipMissing
    \/ Process
    \/ Finish

SpecNames == InitNames /\ [][NextNames]_vars

----------------------------------------------------------------------------
(* What the properties below speak of *)

(* the positions in out of the lines printed about entry i *)
About(i) == {j \in 1..Len(out) : out[j].item = i}

SuccessKinds == {"Updated", "Skipped", "Added"}

Succeeded(i) == \E j \in About(i) : out[j].kind \in SuccessKinds

Failed(i) == \E j \in About(i) : out[j].kind = "Error"

OutcomeOf(i) == IF About(i) = {} THEN "none" ELSE out[Min(About(i))].kind

(* the bundles of the listing that held a resource file when the call started *)
BundlesWithFile == {i \in 1..Len(items) : IsBundle(items[i]) /\ orig[i].exists}

Resolved(i) == Locals(items[i]).translation

HasLine(text, line) == \E j \in 1..Len(SplitLines(text)) : SplitLines(text)[j] = line

HasMatchingLine(text) ==
    \E j \in 1..Len(SplitLines(text)) : LineMatches(SplitLines(text)[j])

----------------------------------------------------------------------------
(* C1: after a call that returned, every bundle whose resource file exists *)
(* and whose processing raised no I/O failure holds a line that is exactly *)
(* "<key>" = "<translation>"; whatever the file held before.               *)
C1_EntryLineInEveryFile ==
    pc = "done" =>
        \A i \in BundlesWithFile :
            ~Failed(i) => HasLine(files[i].content, Canonical(Resolved(i)))

(* C2: the second of two calls in succession leaves every resource file as *)
(* the first call left it and reports "Skipped" for its bundle.            *)
C2_SecondRunSkips ==
    (pc = "done" /\ runs = 2) =>
        \A i \in BundlesWithFile :
            files[i] = orig[i] /\ OutcomeOf(i) = "Skipped"

(* C4: when the file has a line that, trimmed, starts with the quoted key, *)
(* one call replaces every such line by the entry line and leaves every    *)
(* other line as it was and where it was: the file keeps its line count.   *)
C4_UpdateKeepsOtherLines ==
    pc = "done" =>
        \A i \in BundlesWithFile :
            (HasMatchingLine(orig[i].content) /\ ~Failed(i)) =>
                LET before == SplitLines(orig[i].content)
                    after == SplitLines(files[i].content)
                IN  /\ Len(after) = Len(before)
                    /\ \A j \in 1..Len(before) :
                           after[j] = IF LineMatches(before[j])
                                      THEN Canonical(Resolved(i))
                                      ELSE before[j]

(* C5: when the file has no line that, trimmed, starts with the quoted     *)
(* key, one call reports "Added" and writes the original content (plus a   *)
(* newline if it ended with none), an empty line, the entry line and a     *)
(* final newline.  The original content is taken as the call read it, so   *)
(* that a change of "\r" or "\r\n" into "\n" does not count against this.   *)
C5_AppendWhenNoLineMatches ==
    pc = "done" =>
        \A i \in BundlesWithFile :
            (~HasMatchingLine(orig[i].content) /\ ~Failed(i)) =>
                LET original == ReadText(orig[i].content)
                IN  /\ OutcomeOf(i) = "Added"
                    /\ files[i].content =
                           original
                           \o (IF EndsWith(original, <<NL>>) THEN <<>> ELSE <<NL>>)
                           \o <<NL>> \o Canonical(Resolved(i)) \o <<NL>>

(* C9: in the branch of an existing key, a file whose matching lines all   *)
(* equal the entry line already is not written and "Skipped" is reported;  *)
(* "Updated" is reported, and the file written, only when some matching    *)
(* line differed from the entry line.  Stated for the files that have a    *)
(* matching line.                                                          *)
C9_WriteOnlyWhenALineDiffers ==
    pc = "done" =>
        \A i \in BundlesWithFile :
            (HasMatchingLine(orig[i].content) /\ ~Failed(i)) =>
                LET before == SplitLines(orig[i].content)
                    differs == \E j \in 1..Len(before) :
                                   /\ LineMatches(before[j])
                                   /\ before[j] # Canonical(Resolved(i))
                IN  /\ ~differs => (OutcomeOf(i) = "Skipped" /\ files[i] = orig[i])
                    /\ (OutcomeOf(i) = "Updated" \/ files[i] # orig[i]) => differs

(* C10: under repeated calls with no I/O failure the file reaches a fixed  *)
(* point: from some call on, no call writes the file and every call ends   *)
(* with "Skipped"; and "Added" is the outcome of at most one call.         *)
C10_RepeatedRunsConverge ==
    /\ <>[](/\ files = orig
            /\ pc = "done" => OutcomeOf(1) = "Skipped")
    /\ [](added <= 1)

(* a third call has returned "Skipped" on a file to which the first call   *)
(* had added the key                                                       *)
C10_Witness ==
    pc = "done" /\ runs = 3 /\ added = 1 /\ OutcomeOf(1) = "Skipped" /\ files = orig

----------------------------------------------------------------------------
(* the language code and the translation as C3 states them *)
StatedLangCode(item) == SubSeq(item, 1, Len(item) - Len(Suffix))

StatedTranslation(item) ==
    LET lang == StatedLangCode(item)
        simple == SplitFirst(lang, HYPHEN)
    IN  IF TableGet(lang) # None THEN TableGet(lang)
        ELSE IF TableGet(simple) # None THEN TableGet(simple)
        ELSE fallback_translation

(* C3: for an entry whose name ends with ".lproj", with lang_code the name *)
(* without that suffix and simple_code the part of lang_code before its    *)
(* first hyphen, the translation used is table[lang_code] if that is a     *)
(* key, else table[simple_code] if that is a key, else the fallback.       *)
C3_TranslationResolution ==
    IsBundle(loc.item) => loc.translation = StatedTranslation(loc.item)

(* the printed lines that report a processed file *)
SuccessLines == {j \in 1..Len(out) : out[j].kind \in SuccessKinds}

(* C6: the number in the final line is the number of bundles that ended    *)
(* Updated, Skipped or Added; a bundle without resource file is not        *)
(* reported, not written and not counted; a bundle whose read or write     *)
(* failed is not counted.                                                  *)
C6_CountIsSuccesses ==
    pc = "done" =>
        /\ out[Len(out)] = Msg("Finished", 0, <<>>, Cardinality(SuccessLines))
        /\ \A i \in 1..Len(items) :
               /\ (IsBundle(items[i]) /\ ~orig[i].exists) =>
                      (About(i) = {} /\ files[i] = orig[i])
               /\ Failed(i) => ~Succeeded(i)
               /\ Cardinality(About(i) \cap SuccessLines) <= 1

(* a call has returned with a count of one on a listing of two bundles,    *)
(* one of them without resource file                                       *)
C6_Witness ==
    /\ pc = "done"
    /\ count = 1
    /\ Len(items) = 2
    /\ \E i \in 1..2 : IsBundle(items[i]) /\ ~orig[i].exists
    /\ \E i \in 1..2 : Succeeded(i)

(* what entry i gets from a call in which nothing fails *)
Expected(i) == Patch(ReadText(orig[i].content), Resolved(i))

(* C7: a failed read or write is reported with the language code of its    *)
(* bundle and the loop goes on: every bundle the loop has passed was       *)
(* processed exactly once, and each one that did not fail itself has the   *)
(* outcome and the file content of a call without any failure.             *)
C7_FailureIsIsolated ==
    pc \in {"loop", "done"} =>
        \A i \in BundlesWithFile :
            i < idx =>
                /\ Cardinality(About(i)) = 1
                /\ Failed(i) => out[Min(About(i))].lang = LangCode(items[i])
                /\ ~Failed(i) =>
                       /\ out[Min(About(i))].kind = Expected(i).kind
                       /\ files[i].content =
                              IF Expected(i).write THEN Expected(i).text
                              ELSE orig[i].content

(* a call has returned in which a bundle failed and a later bundle was     *)
(* processed and written                                                   *)
C7_Witness ==
    /\ pc = "done"
    /\ \E i, j \in BundlesWithFile :
           i < j /\ Failed(i) /\ Succeeded(j) /\ files[j] # orig[j]

(* C8: whatever the filesystem, base directory missing or unlistable       *)
(* included, no exception leaves update_localization_files().              *)
C8_NoExceptionEscapes == pc # "raised"

====
